---- MODULE Spec2Model ----
(***************************************************************************)
(* Oracle estate status collector (src/health/codbcr-in.py).               *)
(*                                                                         *)
(* Spec      : one run of main(): registry load, the per-entry probe loop, *)
(*             the listener check per ORACLE_HOME, report render and write.*)
(* FairSpec  : Spec with weak fairness on the program's own steps.         *)
(* QuerySpec : calls of OracleRunner.execute_query, directly and through   *)
(*             is_database_accessible, step by step (temporary script,     *)
(*             sqlplus, cleanup).                                          *)
(* FuncSpec  : one call of one of the collector's functions on an input    *)
(*             drawn from a bounded set (parsers, status decisions, the    *)
(*             report's classifications).                                  *)
(***************************************************************************)
EXTENDS Integers, Sequences, FiniteSets, TLC

VARIABLES
    oratab,                 \* the registry file: [exists, lines]
    env,                    \* process environment: ORACLE_HOME / ORACLE_SID ("" = unset)
    pc,                     \* position of main()
    db_entries,             \* result of get_database_entries()
    idx,                    \* 1-based position of the for loop over db_entries
    db_info,                \* the record being built for the current entry
    all_db_info,            \* the collected result sequence
    listener_info_by_home,  \* insertion-ordered dict: sequence of [oracle_home, listeners]
    pending,                \* listener names still to be probed by check_all_listeners
    checked,                \* listener records gathered by check_all_listeners so far
    issued,                 \* the queries issued so far for entry idx (history)
    discoveries,            \* per ORACLE_HOME: number of get_listeners_from_file calls
    probes,                 \* per <<home, listener>>: number of lsnrctl status calls
    blocked,                \* a subprocess.run call that never returns
    report,                 \* the written report file: "none" or the rendered document
    exit_code,              \* process exit status: -1 while running, then 0 or 1
    q_pc,                   \* position inside execute_query ("idle": no call active)
    q_call,                 \* the active or last call: [caller, formatting]
    q_calls,                \* number of execute_query calls started
    tmp_files,              \* the temporary .sql files that exist
    sql_path,               \* the temporary file of the active or last call (0: none)
    q_exc,                  \* the exception in flight or raised by the last call
    q_out,                  \* stdout of sqlplus in the active or last call
    q_result,               \* how the last call ended for its caller
    q_blocked,              \* sqlplus never exits
    fn,                     \* the function under call ("none": no call)
    arg,                    \* its argument
    done,                   \* TRUE once the call has returned
    ret,                    \* the value it returned
    list_file,              \* dba_accounts_list.yml: [exists, dba_accounts]
    vault_files,            \* per user name: the password in <name>.yml ("none": no file)
    backup_files,           \* the contents copied to .yml.bak.<timestamp> files
    proc,                   \* per process: the request it serves and its position
    requests,               \* number of requests received
    expected                \* per user name: what the successful requests made of it (history)

runVars == <<oratab, env, pc, db_entries, idx, db_info, all_db_info,
             listener_info_by_home, pending, checked, issued, discoveries,
             probes, blocked, report, exit_code>>

queryVars == <<q_pc, q_call, q_calls, tmp_files, sql_path, q_exc, q_out, q_result,
               q_blocked>>

funcVars == <<fn, arg, done, ret>>

accountVars == <<list_file, vault_files, backup_files, proc, requests, expected>>

vars == <<runVars, queryVars, funcVars, accountVars>>

(***************************************************************************)
(* Bounds and input alphabets                                              *)
(***************************************************************************)
MaxLines == 2

MaxCalls == 2

\* A registry line after strip(), split at ':'.  <<"#">> is a comment line,
\* <<"">> a blank one.
CommentLine == <<"#">>

RunLines ==
    { CommentLine,
      <<"db1", "/u01", "N">>,
      <<"db2", "/u01", "N">>,
      <<"db3", "">> }

SeqsUpTo(S, n) == UNION { [1..k -> S] : k \in 0..n }

RunOratabs ==
    { [exists |-> FALSE, readable |-> FALSE, lines |-> <<>>] } \cup
    { [exists |-> TRUE, readable |-> TRUE, lines |-> l] : l \in SeqsUpTo(RunLines, MaxLines) }

\* ORACLE_HOME / ORACLE_SID of the invoking shell; "" stands for unset.
RunEnvs ==
    { [ORACLE_HOME |-> "", ORACLE_SID |-> ""],
      [ORACLE_HOME |-> "/u01", ORACLE_SID |-> "db1"] }

\* First character of the identifiers the alphabets contain.
FirstChar(s) ==
    CASE s = "" -> ""
      [] s = "#" -> "#"
      [] s = "#db4" -> "#"
      [] s = "+ASM" -> "+"
      [] s = "*" -> "*"
      [] OTHER -> "a"

\* Python's `a or b` on strings.
StrOr(a, b) == IF a /= "" THEN a ELSE b

(***************************************************************************)
(* OratabParser                                                            *)
(***************************************************************************)
\* ParseLines keeping the entries whose identifier starts with '+' or '*'.
RECURSIVE ParseLines_KeepReserved(_)
ParseLines_KeepReserved(lines) ==
    IF lines = <<>> THEN <<>>
    ELSE LET line == Head(lines)
             rest == ParseLines_KeepReserved(Tail(lines))
         IN  IF line = <<"">> \/ FirstChar(line[1]) = "#" THEN rest
             ELSE IF Len(line) >= 2
                  THEN <<[sid |-> line[1], oracle_home |-> line[2]]>> \o rest
                  ELSE rest

RECURSIVE ParseLines(_)
ParseLines(lines) ==
    IF lines = <<>> THEN <<>>
    ELSE LET line == Head(lines)
             rest == ParseLines(Tail(lines))
         IN  IF line = <<"">> \/ FirstChar(line[1]) = "#" THEN rest
             ELSE IF Len(line) >= 2
                  THEN IF FirstChar(line[1]) \in {"+", "*"} THEN rest
                       ELSE <<[sid |-> line[1], oracle_home |-> line[2]]>> \o rest
                  ELSE rest

\* get_database_entries: a registry that is not found, or whose reading
\* raises, prints an error and yields the empty list.
get_database_entries(file) ==
    IF ~file.exists \/ ~file.readable THEN <<>> ELSE ParseLines(file.lines)

(***************************************************************************)
(* OracleRunner / ListenerChecker constructors                             *)
(***************************************************************************)
\* OracleRunner.__init__ raises ValueError when no home or no sid is known.
OracleRunnerInitRaises(oracle_home, oracle_sid) ==
    \/ StrOr(oracle_home, env.ORACLE_HOME) = ""
    \/ StrOr(oracle_sid, env.ORACLE_SID) = ""

\* ListenerChecker.__init__ raises ValueError when no home is known.
ListenerCheckerInitRaises(oracle_home) ==
    StrOr(oracle_home, env.ORACLE_HOME) = ""

(***************************************************************************)
(* ListenerChecker                                                         *)
(***************************************************************************)
\* A name of listener.ora is the sequence of its '_'-separated words:
\* SALES_LISTENER is <<"SALES", "LISTENER">>.  A file is the sequence of the
\* names standing left of an '=' in it.
DefaultListener == <<"LISTENER">>

RunListenerOras ==
    { [exists |-> FALSE, readable |-> FALSE, stanzas |-> <<>>],
      [exists |-> TRUE,  readable |-> FALSE, stanzas |-> <<>>],
      [exists |-> TRUE,  readable |-> TRUE,  stanzas |-> << <<"LISTENER">> >>],
      [exists |-> TRUE,  readable |-> TRUE,  stanzas |-> << <<"SALES", "LISTENER">> >>] }

\* re.findall(r'(\w+)_LISTENER\s*=', content): the greedy \w+ takes every
\* word before the last _LISTENER of a name.
CustomMatches(stanzas) ==
    { SubSeq(stanzas[k], 1, Len(stanzas[k]) - 1) :
        k \in { n \in 1..Len(stanzas) :
                  /\ Len(stanzas[n]) >= 2
                  /\ stanzas[n][Len(stanzas[n])] = "LISTENER" } }

\* re.findall(r'(LISTENER)\s*=', content): unanchored, so it also matches the
\* tail of NAME_LISTENER =.
DefaultMatches(stanzas) ==
    { DefaultListener :
        k \in { n \in 1..Len(stanzas) :
                  /\ Len(stanzas[n]) >= 1
                  /\ stanzas[n][Len(stanzas[n])] = "LISTENER" } }

\* ListenerNames without the fall-back to the default name.
ListenerNames_NoFallback(file) ==
    IF ~file.exists \/ ~file.readable THEN {DefaultListener}
    ELSE { m \in CustomMatches(file.stanzas) \cup DefaultMatches(file.stanzas) :
             m /= <<"SID", "LIST">> }

\* The names get_listeners_from_file collects (a set: duplicates removed).
ListenerNames(file) ==
    IF ~file.exists \/ ~file.readable THEN {DefaultListener}
    ELSE LET found == { m \in CustomMatches(file.stanzas) \cup DefaultMatches(file.stanzas) :
                          m /= <<"SID", "LIST">> }
         IN  IF found = {} THEN {DefaultListener} ELSE found

\* list(set(...)): the names without duplicates, in hash order.  No step of
\* the run reads the order, so one order stands for all of them.
Orderings(S) ==
    { q \in [1..Cardinality(S) -> S] : \A a, b \in DOMAIN q : a /= b => q[a] /= q[b] }

get_listeners_from_file(file) == CHOOSE q \in Orderings(ListenerNames(file)) : TRUE

\* What lsnrctl status printed, reduced to the texts check_listener_status
\* looks for: "TNS-12541", "The command completed successfully", "STATUS" in
\* any case, and "Status of the LISTENER" in exactly this case.
LsnrctlOutputs ==
    { [empty |-> TRUE,  tns12541 |-> FALSE, completed |-> FALSE, statusWord |-> FALSE,
       statusOfThe |-> FALSE],
      [empty |-> FALSE, tns12541 |-> TRUE,  completed |-> FALSE, statusWord |-> TRUE,
       statusOfThe |-> FALSE],
      [empty |-> FALSE, tns12541 |-> FALSE, completed |-> TRUE,  statusWord |-> TRUE,
       statusOfThe |-> FALSE] }

check_listener_status(listener_name, out) ==
    [name |-> listener_name,
     status |-> IF out.empty \/ out.tns12541 THEN "DOWN"
                ELSE IF out.completed /\ out.statusWord THEN "UP" ELSE "DOWN"]

(***************************************************************************)
(* ConsolidatedHTMLReportGenerator                                         *)
(***************************************************************************)
\* One <tr> of the database summary table: the text of its first cell, the
\* #db-<sid> link of that cell ("" when it has none), the role and status cells.
SummaryRow(db) ==
    IF db.accessible = "False"
    THEN [label |-> db.sid, anchor |-> "", role |-> "N/A", status |-> "NOT ACCESSIBLE"]
    ELSE [label |-> IF db.instance \in {"absent", "no results"} THEN "UNKNOWN" ELSE db.instance,
          anchor |-> db.sid,
          role |-> IF db.role \in {"absent", "no results"} THEN "UNKNOWN" ELSE db.role,
          status |-> IF db.instance \in {"absent", "no results"} THEN "UNKNOWN" ELSE "OPEN"]

\* SummaryRows leaving out the databases that could not be accessed.
RECURSIVE SummaryRows_SkipInaccessible(_)
SummaryRows_SkipInaccessible(dbs) ==
    IF dbs = <<>> THEN <<>>
    ELSE IF Head(dbs).accessible = "False" THEN SummaryRows_SkipInaccessible(Tail(dbs))
    ELSE <<SummaryRow(Head(dbs))>> \o SummaryRows_SkipInaccessible(Tail(dbs))

RECURSIVE SummaryRows(_)
SummaryRows(dbs) ==
    IF dbs = <<>> THEN <<>>
    ELSE <<SummaryRow(Head(dbs))>> \o SummaryRows(Tail(dbs))

RECURSIVE ListenerRows(_)
ListenerRows(groups) ==
    IF groups = <<>> THEN <<>>
    ELSE [k \in 1..Len(Head(groups).listeners) |->
            [name |-> Head(groups).listeners[k].name,
             status |-> Head(groups).listeners[k].status,
             oracle_home |-> Head(groups).oracle_home]]
         \o ListenerRows(Tail(groups))

generate_consolidated_report(dbs, groups) ==
    [db_summary_rows |-> SummaryRows(dbs),
     listener_summary_rows |-> ListenerRows(groups)]

(***************************************************************************)
(* main()                                                                  *)
(***************************************************************************)
NewDbInfo(entry) ==
    [sid |-> entry.sid, oracle_home |-> entry.oracle_home, accessible |-> "absent",
     instance |-> "absent", role |-> "absent", standby_info |-> "absent",
     error |-> "absent"]

NoDbInfo == NewDbInfo([sid |-> "", oracle_home |-> ""])

NoOutput == [text |-> "", has1 |-> FALSE, returncode |-> 0]

QueryIdle ==
    /\ q_pc = "idle"
    /\ q_call = [caller |-> "", formatting |-> ""]
    /\ q_calls = 0
    /\ tmp_files = {}
    /\ sql_path = 0
    /\ q_exc = "none"
    /\ q_out = NoOutput
    /\ q_result = "none"
    /\ q_blocked = FALSE

\* No function call outside FuncSpec.
FuncIdle ==
    /\ fn = "none"
    /\ arg = <<>>
    /\ done = FALSE
    /\ ret = <<>>

\* The processes that serve account requests.
Procs == {1, 2}

\* A process that serves no request.
IdleRequest ==
    [pc |-> "idle", via |-> "", action |-> "", dba_id |-> "", roles |-> <<>>,
     accounts |-> <<>>, found |-> 0, result |-> "none", exception |-> "none",
     before |-> <<>>]

\* No account request outside the account specifications.
AccountIdle ==
    /\ list_file = [exists |-> FALSE, dba_accounts |-> <<>>]
    /\ vault_files = <<>>
    /\ backup_files = {}
    /\ proc = [p \in Procs |-> IdleRequest]
    /\ requests = 0
    /\ expected = <<>>

Init ==
    /\ QueryIdle
    /\ FuncIdle
    /\ AccountIdle
    /\ oratab \in RunOratabs
    /\ env \in RunEnvs
    /\ pc = "start"
    /\ db_entries = <<>>
    /\ idx = 0
    /\ db_info = NoDbInfo
    /\ all_db_info = <<>>
    /\ listener_info_by_home = <<>>
    /\ pending = <<>>
    /\ checked = <<>>
    /\ issued = <<>>
    /\ discoveries = <<>>
    /\ probes = <<>>
    /\ blocked = FALSE
    /\ report = [written |-> FALSE, db_summary_rows |-> <<>>, listener_summary_rows |-> <<>>]
    /\ exit_code = -1

entry == db_entries[idx]

\* The query log of the current entry gains q; BeginEntry starts a new log.
Issue(q) == issued' = Append(issued, q)

\* `except Exception as e:` of the loop body, then fall through to the append.
ExceptHandler(info, e) ==
    /\ db_info' = [info EXCEPT !.accessible = "False", !.error = e]
    /\ pc' = "append"

\* The next iteration of `for entry in db_entries`.
NextEntry ==
    /\ idx' = idx + 1
    /\ pc' = "loop"

\* An exception nothing catches: traceback, exit status 1.
Uncaught ==
    /\ pc' = "crashed"
    /\ exit_code' = 1

\* parser.get_database_entries()
LoadEntries ==
    /\ pc = "start"
    /\ db_entries' = get_database_entries(oratab)
    /\ idx' = 1
    /\ pc' = "loop"
    /\ UNCHANGED <<oratab, env, db_info, all_db_info, listener_info_by_home, pending,
                   checked, issued, discoveries, probes, blocked, report, exit_code>>
    /\ UNCHANGED <<queryVars, funcVars, accountVars>>

\* Loop head, db_info = {...}, OracleRunner(oracle_home, oracle_sid).
BeginEntry ==
    /\ pc = "loop"
    /\ idx <= Len(db_entries)
    /\ IF OracleRunnerInitRaises(entry.oracle_home, entry.sid)
       THEN ExceptHandler(NewDbInfo(entry), "ValueError")
       ELSE /\ db_info' = NewDbInfo(entry)
            /\ pc' = "connect"
    /\ issued' = <<>>
    /\ UNCHANGED <<oratab, env, db_entries, idx, all_db_info, listener_info_by_home,
                   pending, checked, discoveries, probes, blocked, report, exit_code>>
    /\ UNCHANGED <<queryVars, funcVars, accountVars>>

\* MarkInaccessible with the append before `continue` forgotten.
MarkInaccessible_NoAppend ==
    /\ all_db_info' = all_db_info
    /\ db_info' = [db_info EXCEPT !.accessible = "False"]
    /\ NextEntry

\* MarkInaccessible without the `continue`: the probe goes on to the queries.
MarkInaccessible_NoContinue ==
    /\ all_db_info' = Append(all_db_info, [db_info EXCEPT !.accessible = "False"])
    /\ db_info' = [db_info EXCEPT !.accessible = "False"]
    /\ pc' = "instance"
    /\ idx' = idx

\* `if not oracle.is_database_accessible(): ... append; continue`
MarkInaccessible ==
    /\ all_db_info' = Append(all_db_info, [db_info EXCEPT !.accessible = "False"])
    /\ db_info' = [db_info EXCEPT !.accessible = "False"]
    /\ NextEntry

CheckAccessible ==
    /\ pc = "connect"
    /\ ~blocked
    /\ Issue("connect")
    /\ \E ok \in BOOLEAN :
         IF ok
         THEN /\ db_info' = [db_info EXCEPT !.accessible = "True"]
              /\ pc' = "instance"
              /\ UNCHANGED <<idx, all_db_info>>
         ELSE MarkInaccessible
    /\ UNCHANGED <<oratab, env, db_entries, listener_info_by_home, pending, checked,
                   discoveries, probes, blocked, report, exit_code>>
    /\ UNCHANGED <<queryVars, funcVars, accountVars>>

QueryFrame ==
    /\ UNCHANGED <<oratab, env, db_entries, idx, all_db_info, listener_info_by_home,
                   pending, checked, discoveries, probes, blocked, report, exit_code>>
    /\ UNCHANGED <<queryVars, funcVars, accountVars>>

\* db_info["instance"] = oracle.get_instance_status()
GetInstanceStatus ==
    /\ pc = "instance"
    /\ ~blocked
    /\ Issue("instance")
    /\ \E o \in {"rows", "raise"} :
         IF o = "raise" THEN ExceptHandler(db_info, "query failed")
         ELSE /\ db_info' = [db_info EXCEPT !.instance = db_info.sid]
              /\ pc' = "role"
    /\ QueryFrame

\* db_info["role"] = oracle.is_primary_or_standby()
IsPrimaryOrStandby ==
    /\ pc = "role"
    /\ ~blocked
    /\ Issue("role")
    /\ \E o \in {"PRIMARY", "PHYSICAL STANDBY", "no results", "raise"} :
         IF o = "raise" THEN ExceptHandler(db_info, "query failed")
         ELSE /\ db_info' = [db_info EXCEPT !.role = o]
              /\ pc' = "version"
    /\ QueryFrame

\* get_db_version(), get_database_connections(), get_tablespaces_status(): each
\* stores its result or raises.
GetDetail(at, q, next) ==
    /\ pc = at
    /\ ~blocked
    /\ Issue(q)
    /\ \E o \in {"ok", "raise"} :
         IF o = "raise" THEN ExceptHandler(db_info, "query failed")
         ELSE /\ db_info' = db_info
              /\ pc' = next
    /\ QueryFrame

GetDbVersion == GetDetail("version", "version", "connections")

GetDatabaseConnections == GetDetail("connections", "connections", "tablespaces")

GetTablespacesStatus == GetDetail("tablespaces", "tablespaces", "standby")

\* `if db_info["role"].get("DATABASE_ROLE") != "PRIMARY":`
\* NeedsStandbyInfo asking for the standby status of every instance.
NeedsStandbyInfo_Always(info) == TRUE

NeedsStandbyInfo(info) == info.role /= "PRIMARY"

\* get_standby_apply_lag(): three queries, any of which may raise.
StandbyQueries == <<"mrp", "lag", "last_applied">>

GetStandbyApplyLag ==
    /\ pc = "standby"
    /\ ~blocked
    /\ IF NeedsStandbyInfo(db_info)
       THEN \E n \in 1..Len(StandbyQueries), raised \in BOOLEAN :
              /\ raised \/ n = Len(StandbyQueries)
              /\ issued' = issued \o SubSeq(StandbyQueries, 1, n)
              /\ IF raised THEN ExceptHandler(db_info, "query failed")
                 ELSE /\ db_info' = [db_info EXCEPT !.standby_info = "present"]
                      /\ pc' = "append"
       ELSE /\ pc' = "append"
            /\ UNCHANGED <<db_info, issued>>
    /\ QueryFrame

\* all_db_info.append(db_info) after the try block.
AppendDbInfo ==
    /\ pc = "append"
    /\ all_db_info' = Append(all_db_info, db_info)
    /\ pc' = "listeners"
    /\ UNCHANGED <<oratab, env, db_entries, idx, db_info, listener_info_by_home, pending,
                   checked, issued, discoveries, probes, blocked, report, exit_code>>
    /\ UNCHANGED <<queryVars, funcVars, accountVars>>

HomesChecked == { listener_info_by_home[k].oracle_home : k \in DOMAIN listener_info_by_home }

\* `if oracle_home not in listener_info_by_home:` ListenerChecker(...),
\* get_listeners_from_file().
StartListenerCheck ==
    /\ pc = "listeners"
    /\ IF entry.oracle_home \in HomesChecked
       THEN /\ NextEntry
            /\ UNCHANGED <<pending, checked, discoveries, exit_code>>
       ELSE IF ListenerCheckerInitRaises(entry.oracle_home)
            THEN /\ Uncaught
                 /\ UNCHANGED <<idx, pending, checked, discoveries>>
            ELSE /\ \E file \in RunListenerOras :
                      pending' = get_listeners_from_file(file)
                 /\ checked' = <<>>
                 /\ discoveries' = Append(discoveries, entry.oracle_home)
                 /\ pc' = "lsnrctl"
                 /\ UNCHANGED <<idx, exit_code>>
    /\ UNCHANGED <<oratab, env, db_entries, db_info, all_db_info, listener_info_by_home,
                   issued, probes, blocked, report>>
    /\ UNCHANGED <<queryVars, funcVars, accountVars>>

\* One check_listener_status(listener) of check_all_listeners; subprocess.run
\* may raise, and nothing in main() catches it.
CheckListener ==
    /\ pc = "lsnrctl"
    /\ ~blocked
    /\ pending /= <<>>
    /\ probes' = Append(probes, <<entry.oracle_home, Head(pending)>>)
    /\ \/ /\ \E out \in LsnrctlOutputs :
               checked' = Append(checked, check_listener_status(Head(pending), out))
          /\ pending' = Tail(pending)
          /\ UNCHANGED <<pc, exit_code>>
       \/ /\ Uncaught
          /\ UNCHANGED <<pending, checked>>
    /\ UNCHANGED <<oratab, env, db_entries, idx, db_info, all_db_info,
                   listener_info_by_home, issued, discoveries, blocked, report>>
    /\ UNCHANGED <<queryVars, funcVars, accountVars>>

\* listener_info_by_home[oracle_home] = {...}
StoreListeners ==
    /\ pc = "lsnrctl"
    /\ pending = <<>>
    /\ listener_info_by_home' =
         Append(listener_info_by_home,
                [oracle_home |-> entry.oracle_home, listeners |-> checked])
    /\ checked' = <<>>
    /\ NextEntry
    /\ UNCHANGED <<oratab, env, db_entries, db_info, all_db_info, pending, issued,
                   discoveries, probes, blocked, report, exit_code>>
    /\ UNCHANGED <<queryVars, funcVars, accountVars>>

\* The loop is over: render the report and write it to /tmp.
WriteReport ==
    /\ pc = "loop"
    /\ idx > Len(db_entries)
    /\ LET doc == generate_consolidated_report(all_db_info, listener_info_by_home)
       IN  report' = [written |-> TRUE,
                      db_summary_rows |-> doc.db_summary_rows,
                      listener_summary_rows |-> doc.listener_summary_rows]
    /\ pc' = "done"
    /\ exit_code' = 0
    /\ UNCHANGED <<oratab, env, db_entries, idx, db_info, all_db_info,
                   listener_info_by_home, pending, checked, issued, discoveries,
                   probes, blocked>>
    /\ UNCHANGED <<queryVars, funcVars, accountVars>>

\* The places where main() waits in subprocess.run, which is called without a
\* timeout: a child that never exits keeps the call from returning.
InSubprocess ==
    \/ pc \in {"connect", "instance", "role", "version", "connections", "tablespaces"}
    \/ pc = "standby" /\ NeedsStandbyInfo(db_info)
    \/ pc = "lsnrctl" /\ pending /= <<>>

CommandHangs ==
    /\ InSubprocess
    /\ ~blocked
    /\ blocked' = TRUE
    /\ UNCHANGED <<oratab, env, pc, db_entries, idx, db_info, all_db_info,
                   listener_info_by_home, pending, checked, issued, discoveries,
                   probes, report, exit_code>>
    /\ UNCHANGED <<queryVars, funcVars, accountVars>>

Next ==
    \/ LoadEntries
    \/ BeginEntry
    \/ CheckAccessible
    \/ GetInstanceStatus
    \/ IsPrimaryOrStandby
    \/ GetDbVersion
    \/ GetDatabaseConnections
    \/ GetTablespacesStatus
    \/ GetStandbyApplyLag
    \/ AppendDbInfo
    \/ StartListenerCheck
    \/ CheckListener
    \/ StoreListeners
    \/ WriteReport
    \/ CommandHangs

Spec == Init /\ [][Next]_vars

\* The interpreter keeps executing main(); nothing obliges a child process to
\* exit, so CommandHangs carries no fairness.
FairSpec == Spec /\ WF_vars(Next)

(***************************************************************************)
(* Properties of main()                                                    *)
(***************************************************************************)
Range(seq) == { seq[k] : k \in DOMAIN seq }

Count(seq, x) == Cardinality({ k \in DOMAIN seq : seq[k] = x })

LoopFinished == pc = "done" \/ (pc = "loop" /\ idx > Len(db_entries))

\* A record whose connectivity check failed (no exception was recorded).
Refused(db) == db.accessible = "False" /\ db.error = "absent"

\* A record the except handler of the loop body produced.
Failed(db) == db.accessible = "False" /\ db.error /= "absent"

\* C1: once the collection loop of main() has finished, all_db_info holds
\* exactly one record per parsed registry entry, in registry order, whether
\* the entry's probe ended accessible, inaccessible or in an exception.
C1_OneRecordPerEntry ==
    LoopFinished =>
        /\ Len(all_db_info) = Len(db_entries)
        /\ \A k \in DOMAIN all_db_info :
             /\ all_db_info[k].sid = db_entries[k].sid
             /\ all_db_info[k].oracle_home = db_entries[k].oracle_home

C1_Witness ==
    /\ LoopFinished
    /\ Len(db_entries) = 2
    /\ \E a, b \in DOMAIN all_db_info :
         Refused(all_db_info[a]) /\ Failed(all_db_info[b])

RegistryHomes == { db_entries[k].oracle_home : k \in DOMAIN db_entries }

\* C2: at the end of a run, listener discovery has run exactly once for every
\* distinct install path of the registry, and every listener name discovered
\* for a path has been probed exactly once, whatever the database probes of
\* the instances on that path came to.
C2_ListenersOncePerHome ==
    pc = "done" =>
        /\ \A h \in RegistryHomes : Count(discoveries, h) = 1
        /\ \A g \in DOMAIN listener_info_by_home :
             \A n \in DOMAIN listener_info_by_home[g].listeners :
               Count(probes, <<listener_info_by_home[g].oracle_home,
                               listener_info_by_home[g].listeners[n].name>>) = 1

\* C4: a failure while probing one instance (a failed query, an exception in
\* the probe's construction or in its listener check) never aborts the run.
C4_FailureNeverAbortsRun == pc /= "crashed"

InPerInstanceQuery ==
    pc \in {"instance", "role", "version", "connections", "tablespaces", "standby"}

RowSid(row) == IF row.anchor = "" THEN row.label ELSE row.anchor

\* C6: the database summary table of the rendered report has exactly one data
\* row per status record, in the order of the records, for accessible and
\* inaccessible records alike.
C6_SummaryRowPerRecord ==
    report.written =>
        /\ Len(report.db_summary_rows) = Len(all_db_info)
        /\ \A k \in DOMAIN all_db_info :
             RowSid(report.db_summary_rows[k]) = all_db_info[k].sid

C6_Witness ==
    /\ report.written
    /\ Len(all_db_info) = 2
    /\ all_db_info[1].accessible = "False"
    /\ all_db_info[2].accessible = "True"

\* C10: when the registry file is found at no location, the run ends with a
\* non-zero exit status and writes no report.
C10_MissingRegistryFailsRun ==
    ~oratab.exists => ~report.written /\ exit_code /= 0

\* C3: a command that never returns is ended by a timeout, and the run goes on
\* to write the report.
C3_HungCommandRunReachesReport == blocked ~> (pc = "done")

\* C7: a listener status command that does not return in time leads to a
\* listener record with state TIMEOUT.
C7_HungListenerRecordedTimeout ==
    (blocked /\ pc = "lsnrctl") ~>
        (\E k \in DOMAIN checked : checked[k].status = "TIMEOUT")

StandbyQueried == \E k \in DOMAIN issued : issued[k] \in Range(StandbyQueries)

\* C20: the standby status queries are issued for an instance only after its
\* connectivity check succeeded and its role was read as something other
\* than PRIMARY, and a record carries standby information only when its role
\* is not PRIMARY.
C20_StandbyOnlyForNonPrimary ==
    /\ StandbyQueried =>
          /\ db_info.role \notin {"PRIMARY", "absent"}
          /\ db_info.accessible = "True" \/ Failed(db_info)
    /\ db_info.standby_info = "present" => db_info.role /= "PRIMARY"
    /\ \A k \in DOMAIN all_db_info :
          all_db_info[k].standby_info = "present" =>
             /\ all_db_info[k].role /= "PRIMARY"
             /\ all_db_info[k].accessible = "True"

C20_Witness ==
    /\ LoopFinished
    /\ \E a, b \in DOMAIN all_db_info :
         /\ all_db_info[a].role = "PRIMARY"
         /\ all_db_info[a].accessible = "True"
         /\ all_db_info[a].standby_info = "absent"
         /\ all_db_info[b].role = "PHYSICAL STANDBY"
         /\ all_db_info[b].standby_info = "present"

(***************************************************************************)
(* OracleRunner.execute_query / is_database_accessible, step by step       *)
(***************************************************************************)
\* Who calls execute_query and with which formatting: is_database_accessible
\* (default formatting), execute_query_as_dict (csv), or a direct caller.
QueryCalls ==
    { [caller |-> "is_database_accessible", formatting |-> "default"],
      [caller |-> "execute_query_as_dict", formatting |-> "csv"],
      [caller |-> "direct", formatting |-> "json"] }

\* What sqlplus wrote to stdout: the kind of text, whether the character
\* '1' occurs in it, and the exit status.
SqlplusOutputs ==
    { [text |-> "rows", has1 |-> TRUE, returncode |-> 0],
      [text |-> "rows", has1 |-> FALSE, returncode |-> 0],
      [text |-> "", has1 |-> FALSE, returncode |-> 127],
      [text |-> "error", has1 |-> TRUE, returncode |-> 1],
      [text |-> "error", has1 |-> FALSE, returncode |-> 1] }

\* The exceptions the file system and subprocess.run can raise here; all
\* derive from Exception.
QueryExceptions == {"OSError", "UnicodeDecodeError"}

QueryRunFrame == UNCHANGED <<runVars, funcVars, accountVars>>

\* A caller enters execute_query.
StartQuery ==
    /\ q_pc = "idle"
    /\ q_calls < MaxCalls
    /\ q_call' \in QueryCalls
    /\ q_calls' = q_calls + 1
    /\ q_pc' = "mktemp"
    /\ q_exc' = "none"
    /\ q_out' = NoOutput
    /\ q_result' = "none"
    /\ sql_path' = 0
    /\ UNCHANGED <<tmp_files, q_blocked>>
    /\ QueryRunFrame

\* tempfile.NamedTemporaryFile(mode='w+', suffix='.sql', delete=False): a new,
\* uniquely named file, or OSError.
CreateTempFile ==
    /\ q_pc = "mktemp"
    /\ \/ /\ sql_path' = q_calls
          /\ tmp_files' = tmp_files \cup {q_calls}
          /\ q_pc' = "write"
          /\ UNCHANGED q_exc
       \/ /\ q_exc' = "OSError"
          /\ q_pc' = "raise"
          /\ UNCHANGED <<sql_path, tmp_files>>
    /\ UNCHANGED <<q_call, q_calls, q_out, q_result, q_blocked>>
    /\ QueryRunFrame

\* The sql_file.write(...) calls and the close at the end of the `with`
\* block.  The block stands before the try/finally, so an OSError here leaves
\* execute_query without passing through the finally clause.
WriteScript ==
    /\ q_pc = "write"
    /\ \/ /\ q_pc' = "run"
          /\ UNCHANGED q_exc
       \/ /\ q_exc' = "OSError"
          /\ q_pc' = "raise"
    /\ UNCHANGED <<q_call, q_calls, tmp_files, sql_path, q_out, q_result, q_blocked>>
    /\ QueryRunFrame

\* subprocess.run(cmd, shell=True, env=env, capture_output=True, text=True)
\* inside the try block: output, or an exception.
RunSqlplus ==
    /\ q_pc = "run"
    /\ ~q_blocked
    /\ \/ /\ q_out' \in SqlplusOutputs
          /\ UNCHANGED q_exc
       \/ /\ q_exc' \in QueryExceptions
          /\ UNCHANGED q_out
    /\ q_pc' = "finally"
    /\ UNCHANGED <<q_call, q_calls, tmp_files, sql_path, q_result, q_blocked>>
    /\ QueryRunFrame

\* subprocess.run is given no timeout: a sqlplus that never exits keeps it
\* from returning.
SqlplusHangs ==
    /\ q_pc = "run"
    /\ ~q_blocked
    /\ q_blocked' = TRUE
    /\ UNCHANGED <<q_pc, q_call, q_calls, tmp_files, sql_path, q_exc, q_out, q_result>>
    /\ QueryRunFrame

\* finally: if os.path.exists(sql_path): os.unlink(sql_path)
CleanupTempFile ==
    /\ q_pc = "finally"
    /\ tmp_files' = tmp_files \ {sql_path}
    /\ q_pc' = IF q_exc = "none" THEN "return" ELSE "raise"
    /\ UNCHANGED <<q_call, q_calls, sql_path, q_exc, q_out, q_result, q_blocked>>
    /\ QueryRunFrame

\* is_database_accessible with an except clause that catches nothing.
AccessibleResult_NoCatch(exc, out) ==
    IF exc /= "none" THEN "raised"
    ELSE IF out.has1 THEN "True" ELSE "False"

\* is_database_accessible: `return "1" in result`, and `except Exception:
\* return False` around the call.
AccessibleResult(exc, out) ==
    IF exc /= "none" THEN "False"
    ELSE IF out.has1 THEN "True" ELSE "False"

\* What the other callers get: the output (as JSON when asked for and the
\* output is not blank), or the exception.
DirectResult(call, exc, out) ==
    IF exc /= "none" THEN "raised"
    ELSE IF call.formatting = "json" /\ out.text /= "" THEN "json"
    ELSE "text"

\* execute_query hands control back to its caller.
LeaveQuery ==
    /\ q_pc \in {"return", "raise"}
    /\ q_result' = IF q_call.caller = "is_database_accessible"
                   THEN AccessibleResult(q_exc, q_out)
                   ELSE DirectResult(q_call, q_exc, q_out)
    /\ q_pc' = "idle"
    /\ UNCHANGED <<q_call, q_calls, tmp_files, sql_path, q_exc, q_out, q_blocked>>
    /\ QueryRunFrame

\* main() is not running.
MainIdle ==
    /\ oratab = [exists |-> FALSE, readable |-> FALSE, lines |-> <<>>]
    /\ pc = "start"
    /\ db_entries = <<>>
    /\ idx = 0
    /\ db_info = NoDbInfo
    /\ all_db_info = <<>>
    /\ listener_info_by_home = <<>>
    /\ pending = <<>>
    /\ checked = <<>>
    /\ issued = <<>>
    /\ discoveries = <<>>
    /\ probes = <<>>
    /\ blocked = FALSE
    /\ report = [written |-> FALSE, db_summary_rows |-> <<>>, listener_summary_rows |-> <<>>]
    /\ exit_code = -1

RunIdle ==
    /\ env = [ORACLE_HOME |-> "/u01", ORACLE_SID |-> "db1"]
    /\ MainIdle

QueryInit == QueryIdle /\ RunIdle /\ FuncIdle /\ AccountIdle

QueryNext ==
    \/ StartQuery
    \/ CreateTempFile
    \/ WriteScript
    \/ RunSqlplus
    \/ SqlplusHangs
    \/ CleanupTempFile
    \/ LeaveQuery

QuerySpec == QueryInit /\ [][QueryNext]_vars

(***************************************************************************)
(* Properties of execute_query / is_database_accessible                    *)
(***************************************************************************)
\* C8: after execute_query has returned or raised, the temporary script it
\* created no longer exists.
C8_TempFileDeleted ==
    q_pc = "idle" => sql_path \notin tmp_files

\* C9: is_database_accessible never raises; whenever running the
\* connectivity query raised an exception, its result is false.
C9_AccessibleNeverRaises ==
    (q_pc = "idle" /\ q_call.caller = "is_database_accessible") =>
        /\ q_result \in {"none", "True", "False"}
        /\ q_exc /= "none" => q_result = "False"

C9_Witness ==
    /\ q_pc = "idle"
    /\ q_call.caller = "is_database_accessible"
    /\ q_exc = "UnicodeDecodeError"
    /\ q_result = "False"

\* C26: is_database_accessible returns false whenever the connectivity query
\* did not succeed, that is whenever sqlplus printed an error text or exited
\* with a non-zero status.
C26_FailedConnectionNotAccessible ==
    (/\ q_pc = "idle"
     /\ q_call.caller = "is_database_accessible"
     /\ q_result /= "none"
     /\ q_exc = "none"
     /\ q_out.text = "error" \/ q_out.returncode /= 0) =>
        q_result = "False"

(***************************************************************************)
(* FuncSpec: inputs                                                        *)
(***************************************************************************)
\* Registry lines of every kind the parser tells apart: blank, comment,
\* commented-out entry, one field only, reserved identifiers, entries.
OratabLines ==
    RunLines \cup
    { <<"">>,
      <<"#db4", "/u01", "N">>,
      <<"db5">>,
      <<"+ASM", "/u01/grid", "N">>,
      <<"*", "/u01", "N">> }

Oratabs ==
    { [exists |-> FALSE, readable |-> FALSE, lines |-> <<>>],
      [exists |-> TRUE,  readable |-> FALSE, lines |-> <<>>] } \cup
    { [exists |-> TRUE, readable |-> TRUE, lines |-> l] : l \in SeqsUpTo(OratabLines, MaxLines) }

MaxStanzas == 2

\* Names standing left of an '=' in listener.ora: listeners, their SID_LIST
\* stanzas, and a parameter that names no listener.
StanzaNames ==
    { <<"LISTENER">>,
      <<"SALES", "LISTENER">>,
      <<"SID", "LIST", "LISTENER">>,
      <<"SID", "LIST", "SALES", "LISTENER">>,
      <<"TRACE", "LEVEL">> }

ListenerOras ==
    { [exists |-> FALSE, readable |-> FALSE, stanzas |-> <<>>],
      [exists |-> TRUE,  readable |-> FALSE, stanzas |-> <<>>] } \cup
    { [exists |-> TRUE, readable |-> TRUE, stanzas |-> q] :
        q \in SeqsUpTo(StanzaNames, MaxStanzas) }

\* Every text lsnrctl can print, by the phrases it contains.  An empty text
\* contains none; "Status of the LISTENER" contains "STATUS" once upper-cased.
LsnrctlTexts ==
    { o \in [empty : BOOLEAN, tns12541 : BOOLEAN, completed : BOOLEAN,
             statusWord : BOOLEAN, statusOfThe : BOOLEAN] :
        /\ o.empty => ~(o.tns12541 \/ o.completed \/ o.statusWord \/ o.statusOfThe)
        /\ o.statusOfThe => o.statusWord }

ListenerProbes ==
    [listener_name : {DefaultListener, <<"SALES">>}, out : LsnrctlTexts]

\* check_listener_status of codbcr.py, the earlier collector.
codbcr_check_listener_status(listener_name, out) ==
    [name |-> listener_name,
     status |-> IF out.empty \/ out.tns12541 THEN "DOWN"
                ELSE IF out.statusOfThe /\ ~out.tns12541 THEN "UP" ELSE "DOWN"]

(***************************************************************************)
(* FuncSpec: Python values and the apply lag                               *)
(***************************************************************************)
\* A Python value: an int, a float, a str that float() accepts ("numeral"),
\* or any other str.  num is the number it denotes, in hundredths.
PyInt(n) == [type |-> "int", text |-> "", num |-> n * 100]

PyFloat(hundredths) == [type |-> "float", text |-> "", num |-> hundredths]

PyNumeral(hundredths) == [type |-> "numeral", text |-> "", num |-> hundredths]

PyStr(text) == [type |-> "str", text |-> text, num |-> 0]

\* round(seconds / 60, 1) in hundredths, for seconds / 6 not ending in .5
\* (the alphabets below hold no such value).
RoundedMinutes(seconds) == 10 * ((seconds * 10 + 30) \div 60)

\* A LAG_VALUE after lower(): the unit words it contains, the digit groups
\* re.findall(r'\d+', val) returns, and whether float() accepts the whole text.
LagValue(text, minute, second, hour, groups, numeral) ==
    [text |-> text, minute |-> minute, second |-> second, hour |-> hour,
     groups |-> groups, numeral |-> numeral]

LagValues ==
    { LagValue("3 minutes",        TRUE,  FALSE, FALSE, <<3>>,       FALSE),
      LagValue("12 minutes",       TRUE,  FALSE, FALSE, <<12>>,      FALSE),
      LagValue("45 minutes",       TRUE,  FALSE, FALSE, <<45>>,      FALSE),
      LagValue("90 seconds",       FALSE, TRUE,  FALSE, <<90>>,      FALSE),
      LagValue("100 seconds",      FALSE, TRUE,  FALSE, <<100>>,     FALSE),
      LagValue("400 seconds",      FALSE, TRUE,  FALSE, <<400>>,     FALSE),
      LagValue("2 hours",          FALSE, FALSE, TRUE,  <<2>>,       FALSE),
      LagValue("0 hours",          FALSE, FALSE, TRUE,  <<0>>,       FALSE),
      LagValue("1 hour 5 minutes", TRUE,  FALSE, TRUE,  <<1, 5>>,    FALSE),
      LagValue("minutes",          TRUE,  FALSE, FALSE, <<>>,        FALSE),
      LagValue("seconds",          FALSE, TRUE,  FALSE, <<>>,        FALSE),
      LagValue("+00 00:03:00",     FALSE, FALSE, FALSE, <<0, 0, 3, 0>>, FALSE),
      LagValue("12",               FALSE, FALSE, FALSE, <<12>>,      TRUE),
      LagValue("n/a",              FALSE, FALSE, FALSE, <<>>,        FALSE),
      LagValue("",                 FALSE, FALSE, FALSE, <<>>,        FALSE) }

\* lag_results: no row, or the first row's LAG_VALUE.
LagResults ==
    { [rows |-> FALSE, LAG_VALUE |-> LagValue("", FALSE, FALSE, FALSE, <<>>, FALSE)] } \cup
    { [rows |-> TRUE, LAG_VALUE |-> v] : v \in LagValues }

\* The lag_minutes get_standby_apply_lag computes.  [0] on an empty findall
\* raises IndexError, which the except clause turns into "PARSE_ERROR".
lag_minutes(lag_results) ==
    IF ~lag_results.rows THEN PyStr("UNKNOWN")
    ELSE LET val == lag_results.LAG_VALUE
         IN  IF val.minute
             THEN IF val.groups = <<>> THEN PyStr("PARSE_ERROR")
                  ELSE PyNumeral(val.groups[1] * 100)
             ELSE IF val.second
             THEN IF val.groups = <<>> THEN PyStr("PARSE_ERROR")
                  ELSE PyFloat(RoundedMinutes(val.groups[1]))
             ELSE IF val.hour
             THEN IF val.groups = <<>> THEN PyStr("PARSE_ERROR")
                  ELSE PyInt(val.groups[1] * 60)
             ELSE IF val.numeral THEN PyNumeral(val.groups[1] * 100)
             ELSE PyStr(val.text)

(***************************************************************************)
(* FuncSpec: the report's classifications                                  *)
(***************************************************************************)
\* ConsolidatedHTMLReportGenerator._get_lag_class: float() raises on a str
\* that is no numeral.
get_lag_class(lag) ==
    IF lag.type = "str" THEN "status-error"
    ELSE IF lag.num <= 5 * 100 THEN "status-good"
    ELSE IF lag.num <= 30 * 100 THEN "status-warning"
    ELSE "status-error"

\* ConsolidatedHTMLReportGenerator._get_usage_class
get_usage_class(used_pct) ==
    IF used_pct.type = "str" THEN "status-error"
    ELSE IF used_pct.num < 75 * 100 THEN "status-good"
    ELSE IF used_pct.num < 90 * 100 THEN "status-warning"
    ELSE "status-error"

\* HTMLReportGenerator._get_lag_class of oracle_db_status_checker.py
HTMLReportGenerator_get_lag_class(lag) ==
    IF lag.type = "str" THEN "status-warn"
    ELSE IF lag.num < 10 * 100 THEN "status-good"
    ELSE IF lag.num < 30 * 100 THEN "status-warn"
    ELSE "status-error"

\* HTMLReportGenerator._get_usage_class of oracle_db_status_checker.py
HTMLReportGenerator_get_usage_class(used_pct) ==
    IF used_pct.type = "str" THEN "status-warn"
    ELSE IF used_pct.num < 70 * 100 THEN "status-good"
    ELSE IF used_pct.num < 90 * 100 THEN "status-warn"
    ELSE "status-error"

\* get_open_mode_class judging every open mode by both lists, whatever the role.
get_open_mode_class_IgnoreRole(open_mode, is_primary) ==
    IF open_mode \in {"READ WRITE", "READ WRITE OPEN", "READ ONLY", "READ ONLY WITH APPLY"}
    THEN "status-good"
    ELSE "status-error"

\* ConsolidatedHTMLReportGenerator._get_open_mode_class
get_open_mode_class(open_mode, is_primary) ==
    IF is_primary
    THEN IF open_mode \in {"READ WRITE", "READ WRITE OPEN"}
         THEN "status-good" ELSE "status-error"
    ELSE IF open_mode \in {"READ ONLY", "READ ONLY WITH APPLY"}
         THEN "status-good" ELSE "status-error"

\* Lag values around the thresholds of both generators, in hundredths of a
\* minute, as float, as numeral, and the sentinels.
LagMinutes ==
    { PyFloat(h) : h \in {0, 499, 500, 501, 700, 999, 1000, 2999, 3000, 3001, 12000} } \cup
    { PyNumeral(300), PyStr("UNKNOWN"), PyStr("PARSE_ERROR") }

\* USED_PCT cells around the thresholds of both generators, in hundredths of
\* a percent; a cell of the CSV output is a str.
UsedPcts ==
    { PyNumeral(h) : h \in {0, 6999, 7000, 7200, 7499, 7500, 8999, 9000, 10000} } \cup
    { PyFloat(7499), PyStr("N/A") }

\* OPEN_MODE and DATABASE_ROLE as the report reads them ("UNKNOWN": no value).
OpenModeCells ==
    [open_mode : {"READ WRITE", "READ WRITE OPEN", "READ ONLY", "READ ONLY WITH APPLY",
                  "MOUNTED", "UNKNOWN"},
     role : {"PRIMARY", "PHYSICAL STANDBY", "UNKNOWN"}]

(***************************************************************************)
(* FuncSpec: tablespace usage                                              *)
(***************************************************************************)
\* Oracle's ROUND(a / b * 100, 2) for a >= 0, b > 0, in hundredths.
RoundedPct(a, b) == (2 * a * 10000 + b) \div (2 * b)

\* used_pct computed from the size of the data files instead of their
\* maximum size.
used_pct_OfSize(size_mb, free_mb, max_size_mb) ==
    RoundedPct(size_mb - free_mb, size_mb)

\* The used_pct column of the query of get_tablespaces_status:
\* max_free_mb = free_mb + (max_size_mb - size_mb) and
\* used_pct = ROUND((max_size_mb - max_free_mb) / max_size_mb * 100, 2).
used_pct(size_mb, free_mb, max_size_mb) ==
    LET max_free_mb == free_mb + (max_size_mb - size_mb)
    IN  RoundedPct(max_size_mb - max_free_mb, max_size_mb)

\* The sizes of one tablespace in MB: free space within the data files,
\* which do not exceed their maximum size (GREATEST(bytes, maxbytes)).
TablespaceSizes ==
    { t \in [size_mb : {30, 100, 200}, free_mb : {0, 20, 30}, max_size_mb : {100, 200, 300}] :
        t.free_mb <= t.size_mb /\ t.size_mb <= t.max_size_mb }

\* get_tablespaces_status for a database holding one tablespace: the row
\* of the query, USED_PCT in hundredths of a percent.
get_tablespaces_status(t) ==
    << [SIZE_MB |-> t.size_mb, FREE_MB |-> t.free_mb, MAX_SIZE_MB |-> t.max_size_mb,
        MAX_FREE_MB |-> t.free_mb + (t.max_size_mb - t.size_mb),
        USED_PCT |-> used_pct(t.size_mb, t.free_mb, t.max_size_mb)] >>

(***************************************************************************)
(* FuncSpec: the report document                                           *)
(***************************************************************************)
\* A Python dict is a function from its keys; d.get(k, default) and d[k].
EmptyDict == [k \in {} |-> ""]

Get(d, k, default) == IF k \in DOMAIN d THEN d[k] ELSE default

HasKeys(d, keys) == keys \subseteq DOMAIN d

RECURSIVE Flatten(_)
Flatten(seqs) == IF seqs = <<>> THEN <<>> ELSE Head(seqs) \o Flatten(Tail(seqs))

\* One <tr> of the database summary table of the document.
DbSummaryRow(db) ==
    IF Get(db, "accessible", "None") = "False"
    THEN [sid |-> Get(db, "sid", "None"), instance_name |-> "", db_role |-> "N/A",
          open_mode_class |-> "", db_open_mode |-> "N/A",
          status_class |-> "status-error", instance_status |-> "NOT ACCESSIBLE",
          lag_class |-> "", lag_minutes |-> PyStr("N/A"), db_version |-> "N/A"]
    ELSE LET instance == Get(db, "instance", EmptyDict)
             role == Get(db, "role", EmptyDict)
             db_role == Get(role, "DATABASE_ROLE", "UNKNOWN")
             db_open_mode == Get(role, "OPEN_MODE", "UNKNOWN")
             instance_status == Get(instance, "STATUS", "UNKNOWN")
             is_primary == db_role = "PRIMARY"
             lag == Get(Get(db, "standby_info", EmptyDict), "lag_minutes", PyStr("UNKNOWN"))
         IN  [sid |-> Get(db, "sid", "None"),
              instance_name |-> Get(instance, "INSTANCE_NAME", "UNKNOWN"),
              db_role |-> db_role,
              open_mode_class |-> get_open_mode_class(db_open_mode, is_primary),
              db_open_mode |-> db_open_mode,
              status_class |-> IF instance_status = "OPEN" THEN "status-good"
                               ELSE "status-error",
              instance_status |-> instance_status,
              lag_class |-> IF is_primary THEN "" ELSE get_lag_class(lag),
              lag_minutes |-> IF is_primary THEN PyStr("N/A") ELSE lag,
              db_version |-> Get(Get(db, "version", EmptyDict), "version", "UNKNOWN")]

\* One row of the tablespace table of a database section.
TablespaceRow(ts) ==
    [name |-> Get(ts, "TABLESPACE_NAME", "UNKNOWN"),
     size_mb |-> Get(ts, "SIZE_MB", "0"),
     free_mb |-> Get(ts, "FREE_MB", "0"),
     used_pct |-> Get(ts, "USED_PCT", PyNumeral(0)),
     usage_class |-> get_usage_class(Get(ts, "USED_PCT", PyNumeral(0)))]

\* The standby card of a database section (no card for a primary).
StandbyCard(db) ==
    LET standby_info == Get(db, "standby_info", EmptyDict)
        mrp == Get(standby_info, "mrp", EmptyDict)
        lag == Get(standby_info, "lag_minutes", PyStr("UNKNOWN"))
    IN  << [mrp_status |-> Get(mrp, "status", "UNKNOWN"),
            mrp_class |-> IF Get(mrp, "running", FALSE) THEN "status-good"
                          ELSE "status-error",
            lag_minutes |-> lag,
            lag_class |-> get_lag_class(lag),
            last_applied |-> Get(standby_info, "last_applied", "UNKNOWN")] >>

\* One <div class="section"> of the database details.
DbDetailSection(db) ==
    IF Get(db, "accessible", "None") = "False"
    THEN [sid |-> Get(db, "sid", "None"), accessible |-> FALSE, fields |-> EmptyDict,
          standby_card |-> <<>>, tablespace_rows |-> <<>>]
    ELSE LET instance == Get(db, "instance", EmptyDict)
             role == Get(db, "role", EmptyDict)
             db_role == Get(role, "DATABASE_ROLE", "UNKNOWN")
             db_open_mode == Get(role, "OPEN_MODE", "UNKNOWN")
             instance_status == Get(instance, "STATUS", "UNKNOWN")
             db_status == Get(instance, "DATABASE_STATUS", "UNKNOWN")
             is_primary == db_role = "PRIMARY"
         IN  [sid |-> Get(db, "sid", "None"),
              accessible |-> TRUE,
              fields |->
                 [instance_name |-> Get(instance, "INSTANCE_NAME", "UNKNOWN"),
                  db_role |-> db_role,
                  db_open_mode |-> db_open_mode,
                  open_mode_class |-> get_open_mode_class(db_open_mode, is_primary),
                  instance_status |-> instance_status,
                  status_class |-> IF instance_status = "OPEN" THEN "status-good"
                                   ELSE "status-error",
                  db_status |-> db_status,
                  db_status_class |-> IF db_status = "ACTIVE" THEN "status-good"
                                      ELSE "status-error",
                  active_connections |->
                     Get(Get(db, "connections", EmptyDict), "ACTIVE_CONNECTIONS", "UNKNOWN"),
                  db_version |-> Get(Get(db, "version", EmptyDict), "version", "UNKNOWN"),
                  oracle_home |-> Get(db, "oracle_home", "UNKNOWN")],
              standby_card |-> IF is_primary THEN <<>> ELSE StandbyCard(db),
              tablespace_rows |-> LET tablespaces == Get(db, "tablespaces", <<>>)
                                  IN  [k \in DOMAIN tablespaces |->
                                         TablespaceRow(tablespaces[k])]]

\* svc['name'] and svc['instances']: subscripts, which raise KeyError for
\* a service record without the key.
ServiceItemRaises(svc) == ~HasKeys(svc, {"name", "instances"})

ServiceItem(svc) == [name |-> svc["name"], instances |-> svc["instances"]]

\* Rendering one listener raises when one of its service records does.
ListenerRaises(listener) ==
    LET services == Get(listener, "services", <<>>)
    IN  \E k \in DOMAIN services : ServiceItemRaises(services[k])

\* The summary row and the detail section of one listener.
ListenerSection(listener, oracle_home) ==
    LET listener_status == Get(listener, "status", "DOWN")
        services == Get(listener, "services", <<>>)
    IN  [listener_name |-> Get(listener, "name", "UNKNOWN"),
         listener_status |-> listener_status,
         status_class |-> IF listener_status = "UP" THEN "status-good" ELSE "status-error",
         service_count |-> Len(services),
         oracle_home |-> oracle_home,
         version |-> Get(listener, "version", "UNKNOWN"),
         uptime |-> Get(listener, "uptime", "UNKNOWN"),
         start_date |-> Get(listener, "start_date", "UNKNOWN"),
         endpoint_rows |-> Get(listener, "endpoints", <<>>),
         service_rows |-> [k \in DOMAIN services |->
                             IF ServiceItemRaises(services[k])
                             THEN [name |-> "UNKNOWN", instances |-> "UNKNOWN"]
                             ELSE ServiceItem(services[k])]]

GroupRaises(listener_group) ==
    LET listeners == Get(listener_group, "listeners", <<>>)
    IN  \E k \in DOMAIN listeners : ListenerRaises(listeners[k])

GroupSections(listener_group) ==
    LET oracle_home == Get(listener_group, "oracle_home", "UNKNOWN")
        listeners == Get(listener_group, "listeners", <<>>)
    IN  [k \in DOMAIN listeners |-> ListenerSection(listeners[k], oracle_home)]

\* The host name os.uname() reports.
Hostname == "dbhost"

\* Document writing the generation time into every database section too.
Document_TimestampPerSection(dbs, groups, timestamp) ==
    [raised |-> "none", hostname |-> Hostname, timestamp |-> timestamp,
     db_summary_rows |-> [k \in DOMAIN dbs |-> DbSummaryRow(dbs[k])],
     listener_sections |-> <<>>,
     db_detail_sections |-> [k \in DOMAIN dbs |->
                               [DbDetailSection(dbs[k]) EXCEPT !.sid = <<@, timestamp>>]]]

\* generate_consolidated_report: the document, or the exception that ends
\* the call.  timestamp is what datetime.now() read.
Document(dbs, groups, timestamp) ==
    IF \E k \in DOMAIN groups : GroupRaises(groups[k])
    THEN [raised |-> "KeyError", hostname |-> "", timestamp |-> 0,
          db_summary_rows |-> <<>>, listener_sections |-> <<>>,
          db_detail_sections |-> <<>>]
    ELSE [raised |-> "none", hostname |-> Hostname, timestamp |-> timestamp,
          db_summary_rows |-> [k \in DOMAIN dbs |-> DbSummaryRow(dbs[k])],
          listener_sections |-> Flatten([k \in DOMAIN groups |-> GroupSections(groups[k])]),
          db_detail_sections |-> [k \in DOMAIN dbs |-> DbDetailSection(dbs[k])]]

\* Instance records as main() leaves them and with fields missing.
DbRecords ==
    { [sid |-> "db1", accessible |-> "False"],
      [sid |-> "db1", oracle_home |-> "/u01", accessible |-> "False",
       error |-> "query failed"],
      [sid |-> "db1", accessible |-> "True"],
      [sid |-> "db2", oracle_home |-> "/u01", accessible |-> "True",
       instance |-> [error |-> "No results returned"],
       role |-> [error |-> "No results returned"],
       version |-> [version |-> "UNKNOWN"],
       connections |-> [active_connections |-> "UNKNOWN"],
       tablespaces |-> <<>>,
       standby_info |-> EmptyDict],
      [sid |-> "db2", oracle_home |-> "/u01", accessible |-> "True",
       instance |-> [INSTANCE_NAME |-> "db2", STATUS |-> "OPEN", DATABASE_STATUS |-> "ACTIVE"],
       role |-> [DATABASE_ROLE |-> "PRIMARY", OPEN_MODE |-> "READ WRITE"],
       version |-> [version |-> "Oracle 19c"],
       connections |-> [ACTIVE_CONNECTIONS |-> "7"],
       tablespaces |-> << [TABLESPACE_NAME |-> "USERS", SIZE_MB |-> "100",
                           FREE_MB |-> "20", USED_PCT |-> PyNumeral(8000)],
                          [TABLESPACE_NAME |-> "TEMP"] >>],
      [sid |-> "db3", oracle_home |-> "/u02", accessible |-> "True",
       instance |-> [INSTANCE_NAME |-> "db3", STATUS |-> "MOUNTED"],
       role |-> [DATABASE_ROLE |-> "PHYSICAL STANDBY", OPEN_MODE |-> "MOUNTED"],
       tablespaces |-> << EmptyDict >>],
      [sid |-> "db3", oracle_home |-> "/u02", accessible |-> "True",
       instance |-> [INSTANCE_NAME |-> "db3", STATUS |-> "OPEN", DATABASE_STATUS |-> "ACTIVE"],
       role |-> [DATABASE_ROLE |-> "PHYSICAL STANDBY", OPEN_MODE |-> "READ ONLY WITH APPLY"],
       standby_info |-> [mrp |-> [running |-> TRUE, status |-> "APPLYING_LOG"],
                         lag_minutes |-> PyFloat(150),
                         last_applied |-> "2024-01-01 00:00:00"]],
      [accessible |-> "True", standby_info |-> [mrp |-> EmptyDict]] }

\* Listener groups as main() leaves them and with fields missing.
ListenerGroups ==
    { EmptyDict,
      [oracle_home |-> "/u01", listeners |-> << EmptyDict >>],
      [listeners |-> << [name |-> "LISTENER", status |-> "DOWN", version |-> "Unknown",
                         start_date |-> "Unknown", uptime |-> "Unknown",
                         services |-> <<>>, endpoints |-> <<>>] >>],
      [oracle_home |-> "/u01",
       listeners |-> << [name |-> "SALES", status |-> "UP",
                         services |-> << [name |-> "sales", instances |-> "1 instance(s)."] >>,
                         endpoints |-> << "(ADDRESS=(PROTOCOL=tcp))" >>] >>],
      [oracle_home |-> "/u01",
       listeners |-> << [name |-> "SALES", status |-> "UP",
                         services |-> << [name |-> "sales"] >>] >>],
      [oracle_home |-> "/u02",
       listeners |-> << [name |-> "LISTENER", status |-> "UP",
                         services |-> << EmptyDict >>] >>] }

MaxDbRecords == 2

MaxListenerGroups == 1

MaxRenders == 2

\* What datetime.now() reads, to the second.
Timestamps == {1, 2}

Reports ==
    [all_db_info : SeqsUpTo(DbRecords, MaxDbRecords),
     all_listener_info : SeqsUpTo(ListenerGroups, MaxListenerGroups)]

(***************************************************************************)
(* FuncSpec: from the output of sqlplus to the report                      *)
(***************************************************************************)
\* execute_query_as_dict on the CSV output of sqlplus, given as the lines
\* of csv_result.strip() split into cells: nothing for a blank output or a
\* header alone, else one dict per line after the header, keyed by the
\* header's cells (csv.DictReader).
execute_query_as_dict(lines) ==
    IF lines = <<>> THEN <<>>
    ELSE IF Len(lines) < 2 THEN <<>>
    ELSE LET header == lines[1]
         IN  [k \in 1..(Len(lines) - 1) |->
                [col \in Range(header) |->
                   lines[k + 1][CHOOSE c \in DOMAIN header : header[c] = col]]]

\* get_instance_status answering a query without rows with a row of empty
\* cells.
get_instance_status_EmptyRow(csv_result) ==
    LET results == execute_query_as_dict(csv_result)
    IN  IF results = <<>>
        THEN [INSTANCE_NAME |-> "", STATUS |-> "", DATABASE_STATUS |-> ""]
        ELSE results[1]

get_instance_status(csv_result) ==
    LET results == execute_query_as_dict(csv_result)
    IN  IF results = <<>> THEN [error |-> "No results returned"] ELSE results[1]

is_primary_or_standby(csv_result) ==
    LET results == execute_query_as_dict(csv_result)
    IN  IF results = <<>> THEN [error |-> "No results returned"] ELSE results[1]

get_db_version(csv_result) ==
    LET results == execute_query_as_dict(csv_result)
    IN  IF results = <<>> THEN [version |-> "UNKNOWN"]
        ELSE [version |-> Get(results[1], "BANNER", "UNKNOWN")]

get_database_connections(csv_result) ==
    LET results == execute_query_as_dict(csv_result)
    IN  IF results = <<>> THEN [active_connections |-> "UNKNOWN"] ELSE results[1]

\* get_standby_apply_lag on the outputs of its three queries.
get_standby_apply_lag(mrp_csv, lag_csv, last_applied_csv) ==
    LET mrp_results == execute_query_as_dict(mrp_csv)
        lag_results == execute_query_as_dict(lag_csv)
        last_applied_results == execute_query_as_dict(last_applied_csv)
    IN  [mrp |-> IF mrp_results = <<>>
                 THEN [running |-> FALSE, status |-> "NOT RUNNING"]
                 ELSE [running |-> TRUE,
                       status |-> Get(mrp_results[1], "STATUS", "UNKNOWN"),
                       sequence |-> Get(mrp_results[1], "SEQUENCE_NUMBER", "UNKNOWN"),
                       client_process |-> Get(mrp_results[1], "CLIENT_PROCESS", "UNKNOWN")],
         lag_minutes |->
            IF lag_results = <<>>
            THEN PyStr("UNKNOWN")
            ELSE lag_minutes([rows |-> TRUE,
                              LAG_VALUE |-> Get(lag_results[1], "LAG_VALUE",
                                                LagValue("", FALSE, FALSE, FALSE, <<>>, FALSE))]),
         last_applied |->
            IF last_applied_results = <<>> THEN "UNKNOWN"
            ELSE Get(last_applied_results[1], "LAST_APPLIED_TIME", "UNKNOWN")]

\* The record main() builds for an accessible instance from the outputs of
\* its queries.
ProbedDbInfo(out) ==
    LET role == is_primary_or_standby(out.role)
        info == [sid |-> "db1", oracle_home |-> "/u01", accessible |-> "True",
                 instance |-> get_instance_status(out.instance),
                 role |-> role,
                 version |-> get_db_version(out.version),
                 connections |-> get_database_connections(out.connections),
                 tablespaces |-> execute_query_as_dict(out.tablespaces)]
    IN  IF Get(role, "DATABASE_ROLE", "None") /= "PRIMARY"
        THEN [k \in DOMAIN info \cup {"standby_info"} |->
                IF k = "standby_info"
                THEN get_standby_apply_lag(out.mrp, out.lag, out.last_applied)
                ELSE info[k]]
        ELSE info

NoCsv == <<>>

\* The CSV outputs of the queries of one instance: blank, a header alone,
\* or a header and a row.
CsvOutputs ==
    [instance : { NoCsv, << <<"INSTANCE_NAME", "STATUS", "DATABASE_STATUS">> >>,
                  << <<"INSTANCE_NAME", "STATUS", "DATABASE_STATUS">>,
                     <<"db1", "OPEN", "ACTIVE">> >> },
     role : { NoCsv, << <<"DATABASE_ROLE", "OPEN_MODE">> >>,
              << <<"DATABASE_ROLE", "OPEN_MODE">>, <<"PRIMARY", "READ WRITE">> >>,
              << <<"DATABASE_ROLE", "OPEN_MODE">>,
                 <<"PHYSICAL STANDBY", "READ ONLY WITH APPLY">> >> },
     version : { NoCsv, << <<"BANNER">> >>, << <<"BANNER">>, <<"Oracle 19c">> >> },
     connections : { NoCsv, << <<"ACTIVE_CONNECTIONS">>, <<"7">> >> },
     tablespaces : { << <<"TABLESPACE_NAME", "SIZE_MB", "FREE_MB", "USED_PCT">> >>,
                     << <<"TABLESPACE_NAME", "SIZE_MB", "FREE_MB", "USED_PCT">>,
                        <<"USERS", "100", "20", PyNumeral(8000)>> >> },
     mrp : { NoCsv, << <<"PROCESS", "STATUS", "SEQUENCE_NUMBER", "CLIENT_PROCESS">>,
                       <<"MRP0", "APPLYING_LOG", "42", "N/A">> >> },
     lag : { NoCsv, << <<"LAG_VALUE">>,
                       << LagValue("90 seconds", FALSE, TRUE, FALSE, <<90>>, FALSE) >> >> },
     last_applied : { << <<"LAST_APPLIED_TIME">> >>,
                      << <<"LAST_APPLIED_TIME">>, <<"2024-01-01 00:00:00">> >> }]

(***************************************************************************)
(* FuncSpec: calls                                                         *)
(***************************************************************************)
FuncFrame == UNCHANGED <<runVars, queryVars, fn, arg, accountVars>>

CallGetDatabaseEntries ==
    /\ fn = "get_database_entries"
    /\ ~done
    /\ done' = TRUE
    /\ ret' = get_database_entries(arg)
    /\ FuncFrame

CallGetListenersFromFile ==
    /\ fn = "get_listeners_from_file"
    /\ ~done
    /\ done' = TRUE
    /\ ret' = get_listeners_from_file(arg)
    /\ FuncFrame

CallCheckListenerStatus ==
    /\ fn = "check_listener_status"
    /\ ~done
    /\ done' = TRUE
    /\ ret' = check_listener_status(arg.listener_name, arg.out)
    /\ FuncFrame

CallCodbcrCheckListenerStatus ==
    /\ fn = "codbcr.check_listener_status"
    /\ ~done
    /\ done' = TRUE
    /\ ret' = codbcr_check_listener_status(arg.listener_name, arg.out)
    /\ FuncFrame

CallGetStandbyApplyLag ==
    /\ fn = "get_standby_apply_lag"
    /\ ~done
    /\ done' = TRUE
    /\ ret' = lag_minutes(arg)
    /\ FuncFrame

CallGetLagClass ==
    /\ fn = "_get_lag_class"
    /\ ~done
    /\ done' = TRUE
    /\ ret' = get_lag_class(arg)
    /\ FuncFrame

CallGetUsageClass ==
    /\ fn = "_get_usage_class"
    /\ ~done
    /\ done' = TRUE
    /\ ret' = get_usage_class(arg)
    /\ FuncFrame

CallHTMLReportGeneratorGetLagClass ==
    /\ fn = "HTMLReportGenerator._get_lag_class"
    /\ ~done
    /\ done' = TRUE
    /\ ret' = HTMLReportGenerator_get_lag_class(arg)
    /\ FuncFrame

CallHTMLReportGeneratorGetUsageClass ==
    /\ fn = "HTMLReportGenerator._get_usage_class"
    /\ ~done
    /\ done' = TRUE
    /\ ret' = HTMLReportGenerator_get_usage_class(arg)
    /\ FuncFrame

CallGetOpenModeClass ==
    /\ fn = "_get_open_mode_class"
    /\ ~done
    /\ done' = TRUE
    /\ ret' = get_open_mode_class(arg.open_mode, arg.role = "PRIMARY")
    /\ FuncFrame

CallGetTablespacesStatus ==
    /\ fn = "get_tablespaces_status"
    /\ ~done
    /\ done' = TRUE
    /\ ret' = get_tablespaces_status(arg)
    /\ FuncFrame

\* generate_consolidated_report, called up to MaxRenders times on the same
\* probe results; ret collects the outcome of each call.  The clock does
\* not run backwards.
CallGenerateConsolidatedReport ==
    /\ fn = "generate_consolidated_report"
    /\ Len(ret) < MaxRenders
    /\ \E timestamp \in Timestamps :
         /\ \A k \in DOMAIN ret : ret[k].raised = "none" => ret[k].timestamp <= timestamp
         /\ ret' = Append(ret, Document(arg.all_db_info, arg.all_listener_info, timestamp))
    /\ done' = TRUE
    /\ FuncFrame

\* The body of main()'s loop for an accessible instance, and the report on
\* its record.
CallProbeAndReport ==
    /\ fn = "main"
    /\ ~done
    /\ done' = TRUE
    /\ \E timestamp \in Timestamps :
         LET db == ProbedDbInfo(arg)
         IN  ret' = [db_info |-> db, document |-> Document(<<db>>, <<>>, timestamp)]
    /\ FuncFrame

\* The inputs of each function.
FuncInputs(f) ==
    CASE f = "get_database_entries" -> Oratabs
      [] f = "get_listeners_from_file" -> ListenerOras
      [] f \in {"check_listener_status", "codbcr.check_listener_status"} -> ListenerProbes
      [] f = "get_standby_apply_lag" -> LagResults
      [] f \in {"_get_lag_class", "HTMLReportGenerator._get_lag_class"} -> LagMinutes
      [] f \in {"_get_usage_class", "HTMLReportGenerator._get_usage_class"} -> UsedPcts
      [] f = "_get_open_mode_class" -> OpenModeCells
      [] f = "generate_consolidated_report" -> Reports
      [] f = "main" -> CsvOutputs
      [] f = "get_tablespaces_status" -> TablespaceSizes

Functions ==
    { "get_database_entries", "get_listeners_from_file", "check_listener_status",
      "codbcr.check_listener_status", "get_standby_apply_lag", "_get_lag_class",
      "HTMLReportGenerator._get_lag_class", "_get_usage_class",
      "HTMLReportGenerator._get_usage_class", "_get_open_mode_class",
      "get_tablespaces_status",
      "generate_consolidated_report",
      "main" }

FuncInit ==
    /\ QueryIdle
    /\ RunIdle
    /\ AccountIdle
    /\ fn \in Functions
    /\ arg \in FuncInputs(fn)
    /\ done = FALSE
    /\ ret = <<>>

FuncNext ==
    \/ CallGetDatabaseEntries
    \/ CallGetListenersFromFile
    \/ CallCheckListenerStatus
    \/ CallCodbcrCheckListenerStatus
    \/ CallGetStandbyApplyLag
    \/ CallGetLagClass
    \/ CallGetUsageClass
    \/ CallHTMLReportGeneratorGetLagClass
    \/ CallHTMLReportGeneratorGetUsageClass
    \/ CallGetOpenModeClass
    \/ CallGenerateConsolidatedReport
    \/ CallProbeAndReport
    \/ CallGetTablespacesStatus

FuncSpec == FuncInit /\ [][FuncNext]_vars

(***************************************************************************)
(* Properties of the functions                                             *)
(***************************************************************************)
Returned(f) == fn = f /\ done

\* A registry line the parser is to keep.
Qualifies(line) ==
    /\ line /= <<"">>
    /\ FirstChar(line[1]) /= "#"
    /\ Len(line) >= 2
    /\ FirstChar(line[1]) \notin {"+", "*"}

\* C11: for a registry that can be read, get_database_entries returns, in
\* file order, exactly the lines that are not blank, do not start with '#',
\* have at least two ':'-separated fields and whose identifier starts with
\* neither '+' nor '*', each as (first field, second field); every other line
\* is skipped.
C11_EntriesAreQualifyingLines ==
    (Returned("get_database_entries") /\ arg.exists /\ arg.readable) =>
        LET kept == SelectSeq(arg.lines, Qualifies)
        IN  /\ Len(ret) = Len(kept)
            /\ \A k \in 1..Len(kept) :
                 ret[k] = [sid |-> kept[k][1], oracle_home |-> kept[k][2]]

C11_Witness ==
    /\ Returned("get_database_entries")
    /\ arg.exists /\ arg.readable
    /\ arg.lines = << <<"+ASM", "/u01/grid", "N">>, <<"db1", "/u01", "N">> >>
    /\ ret = << [sid |-> "db1", oracle_home |-> "/u01"] >>

\* The listener.ora of C12: SALES_LISTENER = (...) and
\* SID_LIST_SALES_LISTENER = (...).
SalesListenerOra ==
    [exists |-> TRUE, readable |-> TRUE,
     stanzas |-> << <<"SALES", "LISTENER">>, <<"SID", "LIST", "SALES", "LISTENER">> >>]

\* C12: for a listener.ora holding the stanzas SALES_LISTENER and
\* SID_LIST_SALES_LISTENER, get_listeners_from_file returns exactly the
\* name SALES.
C12_OnlySalesDiscovered ==
    (Returned("get_listeners_from_file") /\ arg = SalesListenerOra) =>
        Range(ret) = { <<"SALES">> }

\* No name left of an '=' ends in LISTENER.
NoListenerStanza(stanzas) ==
    \A k \in DOMAIN stanzas : stanzas[k][Len(stanzas[k])] /= "LISTENER"

\* C13: get_listeners_from_file never returns an empty list and never a
\* name twice, and it returns exactly the default name LISTENER when
\* listener.ora is absent, cannot be read, or names no listener.
C13_DefaultListenerFallback ==
    Returned("get_listeners_from_file") =>
        /\ Len(ret) >= 1
        /\ \A a, b \in DOMAIN ret : a /= b => ret[a] /= ret[b]
        /\ (~arg.exists \/ ~arg.readable \/ NoListenerStanza(arg.stanzas)) =>
               ret = <<DefaultListener>>

C13_Witness ==
    /\ Returned("get_listeners_from_file")
    /\ arg.exists /\ arg.readable
    /\ arg.stanzas = << <<"TRACE", "LEVEL">> >>
    /\ ret = <<DefaultListener>>

\* C14: in both collectors and for every listener name, check_listener_status
\* reports UP exactly when the output of lsnrctl contains "The command
\* completed successfully", and DOWN otherwise.
C14_UpIffSuccessPhrase ==
    (Returned("check_listener_status") \/ Returned("codbcr.check_listener_status")) =>
        /\ ret.status \in {"UP", "DOWN"}
        /\ ret.status = "UP" <=> arg.out.completed

\* The classification a CSS class stands for.
Classification(css) ==
    CASE css = "status-good" -> "good"
      [] css \in {"status-warning", "status-warn"} -> "warning"
      [] css = "status-error" -> "error"

\* good up to 5 minutes, warning up to 30, error above (hundredths).
LagClassification(hundredths) ==
    IF hundredths <= 500 THEN "good"
    ELSE IF hundredths <= 3000 THEN "warning"
    ELSE "error"

\* good below 75 percent, warning below 90, error from 90 on (hundredths).
UsageClassification(hundredths) ==
    IF hundredths < 7500 THEN "good"
    ELSE IF hundredths < 9000 THEN "warning"
    ELSE "error"

\* A LAG_VALUE of the form "n unit": one number, one unit word.
IsAmountOf(val, unit) ==
    /\ Len(val.groups) = 1
    /\ val.minute = (unit = "minute")
    /\ val.second = (unit = "second")
    /\ val.hour = (unit = "hour")

\* C15: an apply lag of n seconds is normalized to the number n/60 (to one
\* decimal), of n minutes to the number n, of n hours to the number 60*n,
\* and the normalized value is classified by the lag thresholds.
C15_LagNormalizedToMinutes ==
    (Returned("get_standby_apply_lag") /\ arg.rows) =>
        LET val == arg.LAG_VALUE
            n == val.groups[1]
        IN  /\ IsAmountOf(val, "second") =>
                 /\ ret.type \in {"int", "float"}
                 /\ ret.num * 60 - n * 100 \in -300..300
            /\ IsAmountOf(val, "minute") =>
                 /\ ret.type \in {"int", "float"}
                 /\ ret.num = n * 100
            /\ IsAmountOf(val, "hour") =>
                 /\ ret.type \in {"int", "float"}
                 /\ ret.num = 60 * n * 100
            /\ (\E unit \in {"second", "minute", "hour"} : IsAmountOf(val, unit)) =>
                 Classification(get_lag_class(ret)) = LagClassification(ret.num)

\* A LAG_VALUE that is no number with a seconds/minutes/hours unit.
Unparseable(val) == val.groups = <<>> \/ ~(val.minute \/ val.second \/ val.hour)

\* C16: for every LAG_VALUE that cannot be parsed as a number with a
\* seconds/minutes/hours unit, lag_minutes is the sentinel PARSE_ERROR.
C16_UnparseableLagIsParseError ==
    (Returned("get_standby_apply_lag") /\ arg.rows /\ Unparseable(arg.LAG_VALUE)) =>
        ret = PyStr("PARSE_ERROR")

\* C17: in both report generators, a tablespace usage U is classified good
\* iff U < 75, warning iff 75 <= U < 90, error iff U >= 90.
C17_UsageClassification ==
    ((Returned("_get_usage_class") \/ Returned("HTMLReportGenerator._get_usage_class"))
       /\ arg.type /= "str") =>
        Classification(ret) = UsageClassification(arg.num)

\* C18: in both report generators, an apply lag L is classified good iff
\* L <= 5, warning iff 5 < L <= 30, error iff L > 30.
C18_LagClassification ==
    ((Returned("_get_lag_class") \/ Returned("HTMLReportGenerator._get_lag_class"))
       /\ arg.type /= "str") =>
        Classification(ret) = LagClassification(arg.num)

ReadWriteModes == {"READ WRITE", "READ WRITE OPEN"}

ReadOnlyModes == {"READ ONLY", "READ ONLY WITH APPLY"}

\* C19 as stated: the open-mode class is good exactly when the role is
\* PRIMARY and the mode a read-write one, or the role is a known non-primary
\* role and the mode a read-only one; it is error in every other case, and so
\* whenever the role is UNKNOWN.
C19_UnknownRoleIsError ==
    Returned("_get_open_mode_class") =>
        /\ ret \in {"status-good", "status-error"}
        /\ ret = "status-good" <=>
               \/ arg.role = "PRIMARY" /\ arg.open_mode \in ReadWriteModes
               \/ arg.role \notin {"PRIMARY", "UNKNOWN"} /\ arg.open_mode \in ReadOnlyModes

\* C19, amended: the open-mode class has two outcomes and is good exactly
\* when the role is PRIMARY and the mode a read-write one, or the role is
\* anything else (UNKNOWN included) and the mode a read-only one.
C19_OpenModeClass ==
    Returned("_get_open_mode_class") =>
        /\ ret \in {"status-good", "status-error"}
        /\ ret = "status-good" <=>
               \/ arg.role = "PRIMARY" /\ arg.open_mode \in ReadWriteModes
               \/ arg.role /= "PRIMARY" /\ arg.open_mode \in ReadOnlyModes

C19_Witness ==
    /\ Returned("_get_open_mode_class")
    /\ arg = [open_mode |-> "READ ONLY", role |-> "UNKNOWN"]
    /\ ret = "status-good"

\* C24 as stated: the used_pct of a tablespace is (max_size_mb - free_mb) /
\* max_size_mb as a percentage, from the sizes of the same query.
C24_UsedPctOfFreeMb ==
    Returned("get_tablespaces_status") =>
        \A k \in DOMAIN ret :
            ret[k].USED_PCT = RoundedPct(ret[k].MAX_SIZE_MB - ret[k].FREE_MB, ret[k].MAX_SIZE_MB)

\* C24, amended: the used_pct of a tablespace is (max_size_mb - max_free_mb) /
\* max_size_mb as a percentage rounded to two decimals, where max_free_mb =
\* free_mb + (max_size_mb - size_mb), all from the sizes of the same query;
\* that is (size_mb - free_mb) / max_size_mb.
C24_UsedPctOfMaxFreeMb ==
    Returned("get_tablespaces_status") =>
        \A k \in DOMAIN ret :
            /\ ret[k].SIZE_MB = arg.size_mb
            /\ ret[k].FREE_MB = arg.free_mb
            /\ ret[k].MAX_SIZE_MB = arg.max_size_mb
            /\ ret[k].USED_PCT = RoundedPct(ret[k].SIZE_MB - ret[k].FREE_MB, ret[k].MAX_SIZE_MB)

C24_Witness ==
    /\ Returned("get_tablespaces_status")
    /\ arg = [size_mb |-> 100, free_mb |-> 20, max_size_mb |-> 200]
    /\ Len(ret) = 1
    /\ ret[1].USED_PCT = 4000

(***************************************************************************)
(* EnvSpec: the probe calls and the process environment                    *)
(***************************************************************************)
\* os.environ of the process that makes the probe calls ("" = unset); PATH
\* is the sequence of its directories.
ProcessEnvs ==
    { [ORACLE_HOME |-> "", ORACLE_SID |-> "", TNS_ADMIN |-> "", PATH |-> <<"/usr/bin">>],
      [ORACLE_HOME |-> "/u01", ORACLE_SID |-> "db1", TNS_ADMIN |-> "",
       PATH |-> <<"/usr/bin">>],
      [ORACLE_HOME |-> "/u01", ORACLE_SID |-> "db1", TNS_ADMIN |-> "/etc/tns",
       PATH |-> <<"/u01/bin", "/usr/bin">>] }

ProbeHomes == {"/u01", "/u02"}

ProbeSids == {"db1", "db2"}

ProbeListeners == {"LISTENER", "SALES"}

\* A probe call: the function, its arguments, os.environ as it was when the
\* call began, and the environment the child process got.
ProbeCall(f, a, child) ==
    /\ fn' = f
    /\ arg' = a
    /\ done' = TRUE
    /\ ret' = [environ_before |-> env, child_env |-> child]

EnvFrame ==
    UNCHANGED <<oratab, pc, db_entries, idx, db_info, all_db_info, listener_info_by_home,
                pending, checked, issued, discoveries, probes, blocked, report, exit_code,
                queryVars, accountVars>>

\* OracleRunner.execute_query: env = os.environ.copy(), then ORACLE_HOME,
\* ORACLE_SID and PATH of the copy are set and the copy is passed to
\* subprocess.run.
ExecuteQueryEnv ==
    /\ \E home \in ProbeHomes, sid \in ProbeSids :
         ProbeCall("execute_query", [oracle_home |-> home, oracle_sid |-> sid],
                   [env EXCEPT !.ORACLE_HOME = home, !.ORACLE_SID = sid,
                               !.PATH = <<home \o "/bin">> \o env.PATH])
    /\ UNCHANGED env
    /\ EnvFrame

\* ListenerChecker._run_lsnrctl_command: a copy of os.environ with
\* ORACLE_HOME and PATH set.
RunLsnrctlCommandEnv ==
    /\ \E home \in ProbeHomes, name \in ProbeListeners :
         ProbeCall("_run_lsnrctl_command", [oracle_home |-> home, listener_name |-> name],
                   [env EXCEPT !.ORACLE_HOME = home,
                               !.PATH = <<home \o "/bin">> \o env.PATH])
    /\ UNCHANGED env
    /\ EnvFrame

\* check_listener of check_listener.py: assigns os.environ["ORACLE_HOME"]
\* and os.environ["TNS_ADMIN"]; Popen without env= hands the child the
\* process environment.
CheckListenerEnv ==
    /\ \E home \in ProbeHomes, name \in ProbeListeners :
         LET environ == [env EXCEPT !.ORACLE_HOME = home,
                                    !.TNS_ADMIN = home \o "/network/admin"]
         IN  /\ env' = environ
             /\ ProbeCall("check_listener", [oracle_home |-> home, listener_name |-> name],
                           environ)
    /\ EnvFrame

EnvInit ==
    /\ QueryIdle
    /\ FuncIdle
    /\ AccountIdle
    /\ MainIdle
    /\ env \in ProcessEnvs

EnvNext ==
    \/ ExecuteQueryEnv
    \/ RunLsnrctlCommandEnv
    \/ CheckListenerEnv

EnvSpec == EnvInit /\ [][EnvNext]_vars

\* C23: no probe call changes the process environment: after execute_query,
\* _run_lsnrctl_command or check_listener has built the environment of its
\* child process, ORACLE_HOME, ORACLE_SID, TNS_ADMIN and PATH of the
\* process are what they were when the call began.
C23_ProbesLeaveEnvironment ==
    done => env = ret.environ_before

(***************************************************************************)
(* Properties of the report                                                *)
(***************************************************************************)
\* C21: generate_consolidated_report returns a document without raising for
\* every input in which instance records, listener records or service
\* records lack fields or instances are not accessible.
C21_RenderNeverRaises ==
    (fn = "generate_consolidated_report" /\ done) =>
        \A k \in DOMAIN ret : ret[k].raised = "none"

NoRows(csv_result) == Len(csv_result) < 2

MaxRequests == 2

app_VALID_ROLES == {"SYSDBA", "SYSOPER", "SYSDG", "SYSBACKUP", "DBA"}

VALID_ROLES == {"DBA", "MONITOR", "OPERATOR"}

DbaIds == {"1", "2"}

UserName(dba_id) == "DBA_" \o dba_id

UserNames == { UserName(dba_id) : dba_id \in DbaIds }

\* The role lists of the requests.
RoleLists ==
    { <<>>, <<"DBA">>, <<"dba">>, <<"MONITOR">>, <<"SYSDBA">>, <<"AUDITOR">>,
      <<"DBA", "MONITOR">>, <<"DBA", "">> }

\* str.upper on the role names above.
Upper(role) ==
    CASE role = "dba" -> "DBA"
      [] OTHER -> role

\* What generate_password may return.
Passwords == {"pw1", "pw2"}

\* The states of the files a request may find.
AccountFiles ==
    { [list_file |-> [exists |-> FALSE, dba_accounts |-> <<>>], vaulted |-> {}],
      [list_file |-> [exists |-> TRUE, dba_accounts |-> <<>>], vaulted |-> {}],
      [list_file |-> [exists |-> TRUE,
                      dba_accounts |-> << [name |-> "DBA_1", roles |-> <<"DBA">>] >>],
       vaulted |-> {"DBA_1"}] }

\* next((a for a in accounts if a["name"] == username), None), as the
\* position of the account found (0: None).
Found(accounts, username) ==
    IF \E i \in DOMAIN accounts : accounts[i].name = username
    THEN CHOOSE i \in DOMAIN accounts :
            /\ accounts[i].name = username
            /\ \A j \in 1..(i - 1) : accounts[j].name /= username
    ELSE 0

RemoveAt(seq, i) == SubSeq(seq, 1, i - 1) \o SubSeq(seq, i + 1, Len(seq))

\* The role list the script parses from its third argument.
ParsedRoles(action, argv_roles) ==
    IF action \in {"create", "modify"}
    THEN LET stripped == SelectSeq(argv_roles, LAMBDA r : r /= "")
         IN  [k \in DOMAIN stripped |-> Upper(stripped[k])]
    ELSE <<>>

\* json_output: the process prints its result and exits.
JsonOutput(p, status, exception) ==
    proc' = [proc EXCEPT ![p].pc = "exited", ![p].result = status,
                         ![p].exception = exception]

Snapshot == [list_file |-> list_file, vault_files |-> vault_files]

AccountFrame == UNCHANGED <<runVars, queryVars, funcVars>>

\* POST /create, /modify or /delete: the endpoint validates the roles and
\* starts the script with the upper-cased roles.
ApiRequest(p) ==
    /\ proc[p].pc = "idle"
    /\ requests < MaxRequests
    /\ requests' = requests + 1
    /\ \E action \in {"create", "modify", "delete"}, dba_id \in DbaIds, roles \in RoleLists :
         LET req == [IdleRequest EXCEPT !.via = "api", !.action = action,
                                        !.dba_id = dba_id, !.before = Snapshot]
         IN  IF action \in {"create", "modify"}
                /\ \E k \in DOMAIN roles : Upper(roles[k]) \notin app_VALID_ROLES
             THEN proc' = [proc EXCEPT ![p] = [req EXCEPT !.pc = "exited",
                                                          !.roles = roles,
                                                          !.result = "http_400"]]
             ELSE proc' = [proc EXCEPT ![p] =
                             [req EXCEPT !.pc = "script",
                                         !.roles = IF action = "delete" THEN <<>>
                                                   ELSE [k \in DOMAIN roles |->
                                                           Upper(roles[k])]]]
    /\ UNCHANGED <<list_file, vault_files, backup_files, expected>>
    /\ AccountFrame

\* The script started from the command line.
CliRequest(p) ==
    /\ proc[p].pc = "idle"
    /\ requests < MaxRequests
    /\ requests' = requests + 1
    /\ \E action \in {"create", "modify", "delete", "purge"}, dba_id \in DbaIds,
          roles \in RoleLists :
         proc' = [proc EXCEPT ![p] = [IdleRequest EXCEPT !.pc = "script", !.via = "cli",
                                                         !.action = action,
                                                         !.dba_id = dba_id,
                                                         !.roles = roles,
                                                         !.before = Snapshot]]
    /\ UNCHANGED <<list_file, vault_files, backup_files, expected>>
    /\ AccountFrame

\* The script validates its roles, then loads the accounts list and looks
\* the user up.
ValidateAndLoad(p) ==
    /\ proc[p].pc = "script"
    /\ LET roles == ParsedRoles(proc[p].action, proc[p].roles)
           accounts == IF list_file.exists THEN list_file.dba_accounts ELSE <<>>
       IN  IF \E k \in DOMAIN roles : roles[k] \notin VALID_ROLES
           THEN JsonOutput(p, "invalid_role", "none")
           ELSE proc' = [proc EXCEPT ![p].pc = "loaded", ![p].roles = roles,
                                     ![p].accounts = accounts,
                                     ![p].found = Found(accounts, UserName(proc[p].dba_id))]
    /\ UNCHANGED <<list_file, vault_files, backup_files, requests, expected>>
    /\ AccountFrame

\* delete: the account is removed from the loaded list.
Delete(p) ==
    /\ proc[p].pc = "loaded"
    /\ proc[p].action = "delete"
    /\ IF proc[p].found = 0
       THEN JsonOutput(p, "not_found", "none")
       ELSE proc' = [proc EXCEPT ![p].pc = "backup",
                                 ![p].accounts = RemoveAt(@, proc[p].found)]
    /\ UNCHANGED <<list_file, vault_files, backup_files, requests, expected>>
    /\ AccountFrame

\* create or modify: a new password is written to the user's vault file,
\* then the loaded list is changed.
EncryptAndUpdate(p) ==
    /\ proc[p].pc = "loaded"
    /\ proc[p].action \in {"create", "modify"}
    /\ \E password \in Passwords, returncode \in {0, 1} :
         LET username == UserName(proc[p].dba_id)
         IN  IF returncode /= 0
             THEN /\ JsonOutput(p, "unexpected_error", "RuntimeError")
                  /\ UNCHANGED vault_files
             ELSE /\ vault_files' = [vault_files EXCEPT ![username] = password]
                  /\ IF proc[p].action = "create"
                     THEN IF proc[p].found /= 0
                          THEN JsonOutput(p, "already_exists", "none")
                          ELSE proc' = [proc EXCEPT
                                          ![p].pc = "backup",
                                          ![p].accounts =
                                             Append(@, [name |-> username,
                                                        roles |-> proc[p].roles])]
                     ELSE IF proc[p].found = 0
                          THEN JsonOutput(p, "not_found", "none")
                          ELSE proc' = [proc EXCEPT
                                          ![p].pc = "backup",
                                          ![p].accounts[proc[p].found].roles = proc[p].roles]
    /\ UNCHANGED <<list_file, backup_files, requests, expected>>
    /\ AccountFrame

\* Any other action.
Unsupported(p) ==
    /\ proc[p].pc = "loaded"
    /\ proc[p].action \notin {"create", "modify", "delete"}
    /\ JsonOutput(p, "unsupported_action", "none")
    /\ UNCHANGED <<list_file, vault_files, backup_files, requests, expected>>
    /\ AccountFrame

\* backup_file: shutil.copy2 of the accounts list file.
Backup(p) ==
    /\ proc[p].pc = "backup"
    /\ IF list_file.exists
       THEN /\ backup_files' = backup_files \cup {list_file.dba_accounts}
            /\ proc' = [proc EXCEPT ![p].pc = "write"]
       ELSE /\ JsonOutput(p, "unexpected_error", "FileNotFoundError")
            /\ UNCHANGED backup_files
    /\ UNCHANGED <<list_file, vault_files, requests, expected>>
    /\ AccountFrame

\* What a successful request makes of its user.
Effect(request) ==
    IF request.action = "delete"
    THEN [present |-> FALSE, roles |-> <<>>]
    ELSE [present |-> TRUE, roles |-> request.roles]

\* write_yaml_safely, and the report of success.
Write(p) ==
    /\ proc[p].pc = "write"
    /\ list_file' = [exists |-> TRUE, dba_accounts |-> proc[p].accounts]
    /\ JsonOutput(p, "success", "none")
    /\ expected' = [expected EXCEPT ![UserName(proc[p].dba_id)] = Effect(proc[p])]
    /\ UNCHANGED <<vault_files, backup_files, requests>>
    /\ AccountFrame

\* The process is free for the next request.
Return(p) ==
    /\ proc[p].pc = "exited"
    /\ requests < MaxRequests
    /\ proc' = [proc EXCEPT ![p] = IdleRequest]
    /\ UNCHANGED <<list_file, vault_files, backup_files, requests, expected>>
    /\ AccountFrame

AccountInit ==
    /\ QueryIdle
    /\ FuncIdle
    /\ RunIdle
    /\ \E files \in AccountFiles :
         /\ list_file = files.list_file
         /\ vault_files = [u \in UserNames |-> IF u \in files.vaulted THEN "pw1" ELSE "none"]
         /\ expected = [u \in UserNames |->
                          LET i == Found(files.list_file.dba_accounts, u)
                          IN  IF i = 0 THEN [present |-> FALSE, roles |-> <<>>]
                              ELSE [present |-> TRUE,
                                    roles |-> files.list_file.dba_accounts[i].roles]]
    /\ backup_files = {}
    /\ proc = [p \in Procs |-> IdleRequest]
    /\ requests = 0

\* One request at a time.
AccountNext ==
    \/ ApiRequest(1)
    \/ CliRequest(1)
    \/ ValidateAndLoad(1)
    \/ Delete(1)
    \/ EncryptAndUpdate(1)
    \/ Unsupported(1)
    \/ Backup(1)
    \/ Write(1)
    \/ Return(1)

AccountSpec == AccountInit /\ [][AccountNext]_vars

\* Requests served by two processes at once.
ConcurrentNext ==
    \E p \in Procs :
        \/ ApiRequest(p)
        \/ CliRequest(p)
        \/ ValidateAndLoad(p)
        \/ Delete(p)
        \/ EncryptAndUpdate(p)
        \/ Unsupported(p)
        \/ Backup(p)
        \/ Write(p)
        \/ Return(p)

ConcurrentSpec == AccountInit /\ [][ConcurrentNext]_vars

(***************************************************************************)
(* Properties of the account requests                                      *)
(***************************************************************************)
\* The errors of a request: the user exists already, the user is not
\* found, a role is invalid, the action is unsupported.
RequestErrors == {"already_exists", "not_found", "invalid_role", "unsupported_action"}

\* C27: a request that ends in an error (create for an existing user,
\* modify or delete for a missing user, invalid role, unsupported action)
\* leaves the accounts list file and every vault password file as they
\* were before the request.
C27_ErrorLeavesFilesUnchanged ==
    \A p \in Procs :
        (proc[p].pc = "exited" /\ proc[p].result \in RequestErrors) =>
            /\ list_file = proc[p].before.list_file
            /\ vault_files = proc[p].before.vault_files

\* The number of accounts of the list file with the given name.
Entries(username) ==
    Cardinality({ i \in DOMAIN list_file.dba_accounts :
                    list_file.dba_accounts[i].name = username })

\* The request of process p has taken effect in the accounts list.
TookEffect(p) ==
    LET username == UserName(proc[p].dba_id)
    IN  IF proc[p].action = "delete"
        THEN Entries(username) = 0
        ELSE /\ Entries(username) = 1
             /\ \A i \in DOMAIN list_file.dba_accounts :
                    list_file.dba_accounts[i].name = username =>
                        list_file.dba_accounts[i].roles = proc[p].roles

\* C28: when two requests for different DBA ids, served at once, have both
\* reported success, the accounts list holds the effect of both and no user
\* name twice.
C28_ConcurrentRequestsBothTakeEffect ==
    (/\ requests = 2
     /\ \A p \in Procs : proc[p].pc = "exited" /\ proc[p].result = "success"
     /\ proc[1].dba_id /= proc[2].dba_id) =>
        /\ \A p \in Procs : TookEffect(p)
        /\ \A u \in UserNames : Entries(u) <= 1

\* C29: a create request with valid roles made when there is no accounts
\* list file succeeds (unless the vault tool fails), and when no request is
\* in progress the accounts list holds exactly the users created and not
\* since deleted, each once, each with the roles of its latest successful
\* create or modify.
C29_ListHoldsCreatedUsers ==
    /\ \A p \in Procs :
          (/\ proc[p].pc = "exited"
           /\ proc[p].action = "create"
           /\ ~proc[p].before.list_file.exists
           /\ proc[p].result \notin {"http_400", "invalid_role"}
           /\ proc[p].exception /= "RuntimeError") => proc[p].result = "success"
    /\ (\A p \in Procs : proc[p].pc \in {"idle", "exited"}) =>
          \A u \in UserNames :
              /\ Entries(u) = IF expected[u].present THEN 1 ELSE 0
              /\ \A i \in DOMAIN list_file.dba_accounts :
                    list_file.dba_accounts[i].name = u =>
                        list_file.dba_accounts[i].roles = expected[u].roles

\* C30: a request whose roles the endpoints /create and /modify accept is
\* never rejected by the script for an invalid role.
C30_ApiRolesAcceptedByScript ==
    \A p \in Procs : proc[p].via = "api" => proc[p].result /= "invalid_role"

====
